---- MODULE Spec2Model ----
(***************************************************************************)
(* A model of the parakeet parser: a chart parser for context-sensitive    *)
(* grammars (an adapted Earley algorithm).  Matches are immutable records; *)
(* their identity is the triple of byte strings (crepr, lrepr, rrepr).     *)
(* The parser keeps two charts (lists without duplicates) and two          *)
(* worklists (Python sets, popped in an arbitrary order).  A chart list is *)
(* kept as a bag: how often a match is in the list is kept, the position   *)
(* is not.  The position decides only which of two equal matches a loop    *)
(* over a bucket returns first, and the model allows either.               *)
(***************************************************************************)
EXTENDS Integers, Sequences, FiniteSets, Bags, TLC

\* Longest input string that is parsed.
MaxLen == 3

\* Longest input string that is parsed with GrammarPair and with
\* GrammarLateForward, whose charts grow fastest.
MaxLenPair == 2

\* Largest n for which a^n b^n c^n is parsed.
MaxN == 2

\* How many times parse is called on one Parser.
MaxCalls == 2

(***************************************************************************)
(* Optional values: Python's None is the empty tuple, a present value x is *)
(* the one-element tuple <<x>>.                                            *)
(***************************************************************************)
None == <<>>

Some(x) == <<x>>

IsNone(o) == Len(o) = 0

(***************************************************************************)
(* rules.py                                                                *)
(***************************************************************************)
\* EX(type, ext): a positive ("&") or negative ("!") expectation.
EX(type, ext) == [type |-> type, ext |-> ext]

\* EX.__call__: does the external satisfy the expectation?
EXCall(ex, external) ==
    IF ex.type = "&" THEN ex.ext = external ELSE ex.ext # external

\* TR(ext, act): a terminal rule.  The pattern is a literal, kept as the
\* sequence of its characters; it matches a prefix of the remaining input.
TR(ext, act) ==
    [kind |-> "TR", ext |-> ext, act |-> act, left |-> None, right |-> None]

\* SR(ext, act, left, right): a substitution rule; left and right are
\* optional expectations.
SR(ext, act, left, right) ==
    [kind |-> "SR", ext |-> ext, act |-> act, left |-> left, right |-> right]

(***************************************************************************)
(* The rule sets the parser is built with.                                 *)
(***************************************************************************)
\* Right recursion: L -> x L | x.
GrammarRightRec ==
    << TR("x", <<"x">>),
       SR("L", <<"x", "L">>, None, None),
       SR("L", <<"x">>, None, None) >>

\* Unit-renaming cycle A -> B, B -> A over a terminal.
GrammarUnitCycle ==
    << TR("x", <<"x">>),
       SR("A", <<"x">>, None, None),
       SR("B", <<"A">>, None, None),
       SR("A", <<"B">>, None, None) >>

\* Left and right expectations, positive and negative:
\* S -> A B, A -> x (right &y), B -> y (left &A), W -> A (right &y),
\* B -> y (right !B).
GrammarContext ==
    << TR("x", <<"x">>),
       TR("y", <<"y">>),
       SR("S", <<"A", "B">>, None, None),
       SR("A", <<"x">>, None, Some(EX("&", "y"))),
       SR("B", <<"y">>, Some(EX("&", "A")), None),
       SR("W", <<"A">>, None, Some(EX("&", "y"))),
       SR("B", <<"y">>, None, Some(EX("!", "B"))) >>

\* A -> x, A -> A A (left &x, right &A): the second child of a forward match
\* can carry different left-brothers under one identity.
GrammarPair ==
    << TR("x", <<"x">>),
       SR("A", <<"x">>, None, None),
       SR("A", <<"A", "A">>, Some(EX("&", "x")), Some(EX("&", "A"))) >>

\* Left recursion over terminals of one and of two characters:
\* S -> S v | v | w.
GrammarLeftRec ==
    << TR("v", <<"x">>),
       TR("w", <<"x", "x">>),
       SR("S", <<"S", "v">>, None, None),
       SR("S", <<"v">>, None, None),
       SR("S", <<"w">>, None, None) >>

\* A body symbol that no rule declares: A -> x | Q.
GrammarUndeclared ==
    << TR("x", <<"x">>),
       SR("A", <<"x">>, None, None),
       SR("A", <<"Q">>, None, None) >>

\* A substitution rule with an empty body: A -> x | (nothing).
GrammarEmptyBody ==
    << TR("x", <<"x">>),
       SR("A", <<"x">>, None, None),
       SR("A", <<>>, None, None) >>

\* S -> A C, A -> B, B -> x, C -> y (left !A): the left context A of C is
\* refused and two older matches of its history, B and x, are accepted.
GrammarHistory ==
    << TR("x", <<"x">>),
       TR("y", <<"y">>),
       SR("S", <<"A", "C">>, None, None),
       SR("A", <<"B">>, None, None),
       SR("B", <<"x">>, None, None),
       SR("C", <<"y">>, Some(EX("!", "A")), None) >>

\* S -> a A, a -> b (right &B), b -> c (right &A), A -> B, B -> C, with the
\* terminals c -> z and C -> Z: a needs B on its right and b, below a, needs
\* A, which is above B.  No test builds this Parser: test_sidecross_deadlock
\* has the same substitution rules and another pattern for C.
GrammarSideCrossZ ==
    << SR("S", <<"a", "A">>, None, None),
       SR("a", <<"b">>, None, Some(EX("&", "B"))),
       SR("b", <<"c">>, None, Some(EX("&", "A"))),
       SR("A", <<"B">>, None, None),
       SR("B", <<"C">>, None, None),
       TR("c", <<"z">>),
       TR("C", <<"Z">>) >>

\* B -> y (right !B) with a terminal e whose pattern is the empty string:
\* re.compile('') matches at every position, the end of the string too.
GrammarEmptyTerminal ==
    << TR("y", <<"y">>),
       TR("e", <<>>),
       SR("B", <<"y">>, None, Some(EX("!", "B"))) >>

\* P -> L A with renaming cycles on both sides, L -> x, M -> L, L -> M and
\* A -> y, B -> A, A -> B: the wrapped forms of L come to P one after the
\* other, so that forward matches of A and B at the position after L are
\* predicted when the chart has the complete matches they await.
GrammarLateForward ==
    << TR("x", <<"x">>),
       TR("y", <<"y">>),
       SR("L", <<"x">>, None, None),
       SR("M", <<"L">>, None, None),
       SR("L", <<"M">>, None, None),
       SR("A", <<"y">>, None, None),
       SR("B", <<"A">>, None, None),
       SR("A", <<"B">>, None, None),
       SR("P", <<"L", "A">>, None, None) >>

Grammars ==
    << GrammarRightRec, GrammarUnitCycle, GrammarContext, GrammarPair,
       GrammarLeftRec, GrammarUndeclared, GrammarEmptyBody, GrammarHistory,
       GrammarSideCrossZ, GrammarEmptyTerminal, GrammarLateForward >>

(***************************************************************************)
(* The rule sets of tests.py, in the order the tests list the rules.       *)
(***************************************************************************)
\* test_parser: the language a^n b^n c^n.
GrammarAnBnCn ==
    << TR("a", <<"a">>),
       TR("b", <<"b">>),
       TR("c", <<"c">>),
       SR("C", <<"c">>, Some(EX("&", "b")), None),
       SR("C", <<"c">>, Some(EX("&", "c")), None),
       SR("B", <<"b">>, Some(EX("&", "a")), None),
       SR("B", <<"b">>, Some(EX("&", "b")), None),
       SR("W", <<"B">>, None, Some(EX("&", "C"))),
       SR("Z", <<"C">>, Some(EX("&", "W")), None),
       SR("C", <<"W">>, None, Some(EX("&", "Z"))),
       SR("B", <<"Z">>, Some(EX("&", "C")), None),
       SR("S", <<"a", "S", "B", "C">>, None, None),
       SR("S", <<"a", "B", "C">>, None, None) >>

\* test_parallel_deadlock
GrammarParallel ==
    << SR("S", <<"a", "A">>, None, None),
       SR("a", <<"b">>, None, Some(EX("&", "A"))),
       SR("A", <<"B">>, Some(EX("&", "a")), None),
       TR("b", <<"z">>),
       TR("B", <<"Z">>) >>

\* test_overcross_deadlock
GrammarOverCross ==
    << SR("S", <<"a", "A">>, None, None),
       SR("a", <<"b">>, None, None),
       SR("b", <<"c">>, None, Some(EX("&", "A"))),
       SR("A", <<"B">>, None, None),
       SR("B", <<"C">>, Some(EX("&", "a")), None),
       TR("c", <<"z">>),
       TR("C", <<"Z">>) >>

\* test_sidecross_deadlock: terminal C has the pattern "rZ", the two
\* characters r and Z.
GrammarSideCross ==
    << SR("S", <<"a", "A">>, None, None),
       SR("a", <<"b">>, None, Some(EX("&", "B"))),
       SR("b", <<"c">>, None, Some(EX("&", "A"))),
       SR("A", <<"B">>, None, None),
       SR("B", <<"C">>, None, None),
       TR("c", <<"z">>),
       TR("C", <<"r", "Z">>) >>

\* test_upcycle
GrammarUpcycle ==
    << SR("S", <<"A", "B", "C", "D">>, None, None),
       SR("A", <<"a">>, None, None),
       SR("B", <<"b">>, Some(EX("&", "AW")), None),
       SR("AW", <<"A">>, None, None),
       SR("A", <<"AW">>, None, None),
       SR("C", <<"c">>, Some(EX("&", "BW")), None),
       SR("BW", <<"B">>, None, None),
       SR("B", <<"BW">>, None, None),
       SR("D", <<"d">>, Some(EX("&", "CW")), None),
       SR("CW", <<"C">>, None, None),
       SR("C", <<"CW">>, None, None),
       TR("a", <<"a">>),
       TR("b", <<"b">>),
       TR("c", <<"c">>),
       TR("d", <<"d">>) >>

\* test_wide_upcycle
GrammarWideUpcycle ==
    << SR("S", <<"A", "B", "C">>, None, None),
       SR("A", <<"a">>, None, None),
       SR("B", <<"b">>, None, None),
       SR("C", <<"c">>, None, None),
       SR("A", <<"AW">>, None, Some(EX("&", "B"))),
       SR("B", <<"BW">>, None, None),
       SR("C", <<"CW">>, Some(EX("&", "B")), None),
       SR("AW", <<"A">>, None, None),
       SR("BW", <<"B">>, None, None),
       SR("CW", <<"C">>, None, None),
       TR("a", <<"a">>),
       TR("b", <<"b">>),
       TR("c", <<"c">>) >>

\* test_hanging_expectation
GrammarHanging ==
    << SR("S", <<"A", "B">>, None, None),
       SR("A", <<"a">>, None, Some(EX("&", "B"))),
       SR("B", <<"b">>, None, Some(EX("&", "A"))),
       TR("a", <<"a">>),
       TR("b", <<"b">>) >>

\* The rules the two parsers of test_parse_without_expect share.
WithoutExpectRules ==
    << SR("W", <<"A", "B">>, None, None),
       SR("R", <<"B", "C">>, None, None),
       SR("A", <<"a">>, None, None),
       SR("B", <<"b">>, None, None),
       SR("C", <<"c">>, None, None),
       TR("a", <<"a">>),
       TR("b", <<"b">>),
       TR("c", <<"c">>) >>

\* test_parse_without_expect, the first parser.
GrammarWithoutExpect ==
    <<SR("S", <<"A", "B", "C">>, None, None)>> \o WithoutExpectRules

\* test_parse_without_expect, the second parser.
GrammarWithoutExpect2 ==
    << SR("S1", <<"A", "B", "C">>, None, None),
       SR("S2", <<"A", "R">>, None, None) >> \o WithoutExpectRules

TestGrammars ==
    << GrammarAnBnCn, GrammarParallel, GrammarOverCross, GrammarSideCross,
       GrammarUpcycle, GrammarWideUpcycle, GrammarHanging,
       GrammarWithoutExpect, GrammarWithoutExpect2 >>

VARIABLES
    gram,       \* index of the rule set the Parser was built with
    pc,         \* "idle", "running", "done" (parse returned), "raised"
    string,     \* self.string
    expect,     \* the expect argument, None or Some(external)
    forwards,   \* worklist of new forward matches (a Python set)
    completes,  \* worklist of new complete matches (a Python set)
    fms,        \* self.fms.all_matches, as a bag
    cms,        \* self.cms.all_matches, as a bag
    result,     \* the list parse returned, as a bag
    err,        \* the exception parse raised, "" if none
    calls       \* how many times parse was called on this Parser

vars == <<gram, pc, string, expect, forwards, completes, fms, cms, result, err,
          calls>>

\* Parser.rules
Rules ==
    IF gram <= Len(Grammars) THEN Grammars[gram]
    ELSE TestGrammars[gram - Len(Grammars)]

\* The externals the match structures are indexed by.
Externals == {Rules[i].ext : i \in 1..Len(Rules)}

(***************************************************************************)
(* matches.py                                                              *)
(***************************************************************************)
RECURSIVE Pow256(_)
Pow256(n) == IF n = 0 THEN 1 ELSE 256 * Pow256(n - 1)

\* ceil(log(_max, 256)) for _max >= 1.
RECURSIVE ByteLength(_)
ByteLength(max) == IF max <= 1 THEN 0 ELSE 1 + ByteLength((max + 255) \div 256)

\* to_bytes(i, _max): i as a big-endian byte string of fixed length.
to_bytes(i, max) ==
    LET n == ByteLength(max)
    IN  [k \in 1..n |-> (i \div Pow256(n - k)) % 256]

\* Parser.namings[rule]; r is the position of the rule in Rules (from 1).
Naming(r) == to_bytes(r - 1, Len(Rules))

RECURSIVE JoinCrepr(_)
JoinCrepr(children) ==
    IF Len(children) = 0 THEN <<>>
    ELSE Head(children).crepr \o JoinCrepr(Tail(children))

\* Match.__post_init__: the match with its three byte representations.
\* cls is "F" (ForwardMatch) or "C" (CompleteMatch); a forward match has no
\* rbro and a complete match no upon.
Match(cls, rule, start, close, name, children, lbro, rbro, upon) ==
    LET viaLbro == IF IsNone(lbro) THEN <<>>
                   ELSE lbro[1].lrepr \o lbro[1].crepr
        rb == IF IsNone(rbro) /\ Len(children) > 0
              THEN children[Len(children)].rbro
              ELSE rbro
    IN  [ cls      |-> cls,
          rule     |-> rule,
          start    |-> start,
          close    |-> close,
          name     |-> name,
          crepr    |-> name \o JoinCrepr(children),
          lrepr    |-> IF IsNone(upon) THEN viaLbro
                       ELSE viaLbro \o upon[1].crepr,
          rrepr    |-> IF IsNone(rb) THEN <<>>
                       ELSE rb[1].crepr \o rb[1].rrepr,
          children |-> children,
          lbro     |-> lbro,
          rbro     |-> rbro,
          upon     |-> upon ]

\* Match.__eq__: same class and same (crepr, lrepr, rrepr).
Eq(a, b) ==
    /\ a.cls = b.cls
    /\ a.crepr = b.crepr
    /\ a.lrepr = b.lrepr
    /\ a.rrepr = b.rrepr

\* a == b where either may be None.
OptEq(a, b) ==
    IF IsNone(a) \/ IsNone(b) THEN IsNone(a) /\ IsNone(b) ELSE Eq(a[1], b[1])

\* m in seq
InSeq(m, seq) == \E i \in 1..Len(seq) : Eq(seq[i], m)

\* m in a list that is kept as a bag
InBag(m, bag) == \E x \in BagToSet(bag) : Eq(x, m)

\* list.append(m) on a list that is kept as a bag
BagAppend(bag, m) == bag (+) SetToBag({m})

\* m in set
InSet(m, set) == \E x \in set : Eq(x, m)

\* seq.index(m), counted from 0; m is in seq.
IndexOf(m, seq) ==
    (CHOOSE i \in 1..Len(seq) :
        /\ Eq(seq[i], m)
        /\ \A j \in 1..(i - 1) : ~Eq(seq[j], m)) - 1

\* Match.external
external(m) == Rules[m.rule].ext

\* Match.expectation
expectation(m) == Rules[m.rule].right

\* Match.first
first(m) == m.children[1]

\* Match.last
last(m) == m.children[Len(m.children)]

\* ForwardMatch.awaited
awaited(fm) == SubSeq(Rules[fm.rule].act, Len(fm.children) + 1,
                      Len(Rules[fm.rule].act))

\* ForwardMatch.from_rule
from_rule(rule, start, left_brother, upon) ==
    Match("F", rule, start, start, Naming(rule), <<>>, left_brother, None, upon)

\* The regular expression of a terminal rule matches at string[start:].
ScanMatches(rule, str, start) ==
    LET pat == Rules[rule].act
    IN  /\ start + Len(pat) <= Len(str)
        /\ \A k \in 1..Len(pat) : str[start + k] = pat[k]

\* CompleteMatch.from_scan, when the pattern matches.
from_scan(rule, str, start) ==
    LET close == start + Len(Rules[rule].act)
    IN  Match("C", rule, start, close,
              Naming(rule) \o to_bytes(start, Len(str) + 1)
                           \o to_bytes(close, Len(str) + 1),
              <<>>, None, None, None)

\* CompleteMatch.wrapping_history, newest first.
RECURSIVE wrapping_history(_)
wrapping_history(m) ==
    IF Len(m.children) # 1 THEN <<m>>
    ELSE <<m>> \o wrapping_history(first(m))

(***************************************************************************)
(* interactions.py                                                         *)
(***************************************************************************)
RECURSIVE history_at_start(_)
history_at_start(m) ==
    IF Len(m.children) = 0 THEN <<m>>
    ELSE <<m>> \o history_at_start(first(m))

RECURSIVE history_at_close(_)
history_at_close(m) ==
    IF Len(m.children) = 0 THEN <<m>>
    ELSE <<m>> \o history_at_close(last(m))

\* max of a non-empty set of numbers
Max(S) == CHOOSE x \in S : \A y \in S : y <= x

\* A variant of can_concat that accepts every pair.
can_concatAlways(left, right) == TRUE

\* can_concat(left, right) for two complete matches.
\* A variant of can_concat that lets the pairings of contexts cross.
can_concatCrossing(left, right) ==
    LET left_req      == left.rbro
        right_req     == right.lbro
        left_history  == history_at_close(left)
        right_history == history_at_start(right)
    IN  IF IsNone(left_req) /\ IsNone(right_req) THEN TRUE
        ELSE IF IsNone(left_req) THEN InSeq(right_req[1], left_history)
        ELSE IF IsNone(right_req) THEN InSeq(left_req[1], right_history)
        ELSE /\ InSeq(left_req[1], right_history)
             /\ InSeq(right_req[1], left_history)

can_concat(left, right) ==
    LET left_req      == left.rbro
        right_req     == right.lbro
        left_history  == history_at_close(left)
        right_history == history_at_start(right)
    IN  IF IsNone(left_req) /\ IsNone(right_req) THEN TRUE
        ELSE IF IsNone(left_req) THEN InSeq(right_req[1], left_history)
        ELSE IF IsNone(right_req) THEN InSeq(left_req[1], right_history)
        ELSE IF /\ InSeq(left_req[1], right_history)
                /\ InSeq(right_req[1], left_history)
        THEN LET left_oldest  == Max({i - 1 : i \in
                                        {j \in 1..Len(left_history) :
                                            OptEq(left_history[j].rbro, left_req)}})
                 left_needed  == IndexOf(right_req[1], left_history)
                 right_oldest == Max({i - 1 : i \in
                                        {j \in 1..Len(right_history) :
                                            OptEq(right_history[j].lbro, right_req)}})
                 right_needed == IndexOf(left_req[1], right_history)
             IN  IF left_oldest < left_needed
                 THEN right_needed <= right_oldest
                 ELSE right_oldest < right_needed
        ELSE FALSE

\* wrapping_span(cm, side): a tuple of sets of externals.
RECURSIVE wrapping_span(_, _)
wrapping_span(cm, side) ==
    LET wh == wrapping_history(cm)
        central_wrappings == << {external(wh[i]) : i \in 1..Len(wh)} >>
        left_wrappings ==
            IF IsNone(cm.lbro) \/ side = "right" THEN <<>>
            ELSE wrapping_span(cm.lbro[1], "left")
        right_wrappings ==
            IF IsNone(cm.rbro) \/ side = "left" THEN <<>>
            ELSE wrapping_span(cm.rbro[1], "right")
    IN  IF side = "none" THEN central_wrappings
        ELSE left_wrappings \o central_wrappings \o right_wrappings


\* The outcome of settle or feed: kind is "ok" (out holds the match that is
\* returned) or the name of the exception that is raised.
Ok(m) == [kind |-> "ok", out |-> Some(m)]

Raise(exception) == [kind |-> exception, out |-> None]

\* settle(fm, cm): complete fm with cm as its right-brother.
settle(fm, cm) ==
    IF Len(awaited(fm)) # 0 THEN Raise("AssertionError")
    ELSE IF IsNone(expectation(fm)) THEN Raise("TypeError")
    ELSE IF ~EXCall(expectation(fm)[1], external(cm))
         THEN Raise("AssertionError")
    ELSE IF ~can_concat(last(fm), cm) THEN Raise("AssertionError")
    ELSE Ok(Match("C", fm.rule, fm.start, fm.close, fm.name, fm.children,
                  fm.lbro, Some(cm), None))

\* A variant of CanPromote that does not wait for all the children.
CanPromoteEarly(fm) ==
    LET rb == last(fm).rbro
        right == Rules[fm.rule].right
    IN  \/ IsNone(right)
        \/ (~IsNone(rb) /\ EXCall(right[1], external(rb[1])))

\* A variant of CanPromote that does not look at the right expectation.
CanPromoteAnyRight(fm) == Len(awaited(fm)) = 0

\* CompleteMatch.from_forward: the assertions hold for fm.
CanPromote(fm) ==
    /\ Len(awaited(fm)) = 0
    /\ LET rb == last(fm).rbro
           right == Rules[fm.rule].right
       IN  \/ IsNone(right)
           \/ (~IsNone(rb) /\ EXCall(right[1], external(rb[1])))

\* CompleteMatch.from_forward, when the assertions hold.
from_forward(fm) ==
    Match("C", fm.rule, fm.start, fm.close, fm.name, fm.children,
          fm.lbro, last(fm).rbro, None)

\* feed, lines 73-74: the first match of cm's wrapping history with the
\* external of newcm, None if there is none.
PrevOf(newcm, cm) ==
    LET wh == wrapping_history(cm)
        hits == {i \in 1..Len(wh) : external(wh[i]) = external(newcm)}
    IN  IF hits = {} THEN None
        ELSE Some(wh[CHOOSE i \in hits : \A j \in hits : i <= j])

\* feed, lines 96-107.  The second disjunct calls can_concat(newcm.lbro,
\* prev); that call dereferences newcm.lbro.
LeftCallsCanConcat(newcm, prev) ==
    /\ ~(IsNone(prev.lbro) /\ ~IsNone(newcm.lbro))
    /\ ~IsNone(prev.lbro)
    /\ wrapping_span(prev, "left") # wrapping_span(newcm, "left")

new_on_left(newcm, prev) ==
    \/ (IsNone(prev.lbro) /\ ~IsNone(newcm.lbro))
    \/ /\ LeftCallsCanConcat(newcm, prev)
       /\ ~can_concat(newcm.lbro[1], prev)

\* feed, lines 110-121, symmetric: can_concat(prev, newcm.rbro).
RightCallsCanConcat(newcm, prev) ==
    /\ ~(IsNone(prev.rbro) /\ ~IsNone(newcm.rbro))
    /\ ~IsNone(prev.rbro)
    /\ wrapping_span(prev, "right") # wrapping_span(newcm, "right")

new_on_right(newcm, prev) ==
    \/ (IsNone(prev.rbro) /\ ~IsNone(newcm.rbro))
    \/ /\ RightCallsCanConcat(newcm, prev)
       /\ ~can_concat(prev, newcm.rbro[1])

\* A variant of the cycle check that takes every reappearance of an external
\* in the wrapping history for a cycle.
CycleCheckStrict(newcm, prev) == Raise("CyclicMatchError")

\* feed, lines 82-132: newcm against prev, the previous match of the same
\* external in the wrapping history.
CycleCheck(newcm, prev) ==
    IF wrapping_span(newcm, "both") = wrapping_span(prev, "both")
    THEN Raise("CyclicMatchError")
    ELSE IF wrapping_span(newcm, "none") # wrapping_span(prev, "none")
    THEN Ok(newcm)
    ELSE IF LeftCallsCanConcat(newcm, prev) /\ IsNone(newcm.lbro)
    THEN Raise("AttributeError")
    ELSE IF RightCallsCanConcat(newcm, prev) /\ IsNone(newcm.rbro)
    THEN Raise("AttributeError")
    ELSE IF ~new_on_left(newcm, prev) /\ ~new_on_right(newcm, prev)
    THEN Raise("CyclicMatchError")
    ELSE Ok(newcm)

\* feed, lines 71-81: with no previous match of the same external the new
\* complete match is returned.
CheckAgainst(newcm, prevo) ==
    IF IsNone(prevo) THEN Ok(newcm) ELSE CycleCheck(newcm, prevo[1])

\* A variant of the promotion that, when the complete match is rejected as
\* cyclic, returns the advanced forward match.
PromoteOrKeep(fmatch, cm) ==
    IF ~CanPromote(fmatch) THEN Ok(fmatch)
    ELSE IF CheckAgainst(from_forward(fmatch),
                         PrevOf(from_forward(fmatch), cm)).kind
               = "CyclicMatchError"
    THEN Ok(fmatch)
    ELSE CheckAgainst(from_forward(fmatch), PrevOf(from_forward(fmatch), cm))

\* feed, lines 67-132: promote the advanced forward match fmatch, whose last
\* child is cm, unless it is a useless renaming cycle.
Promote(fmatch, cm) ==
    IF ~CanPromote(fmatch) THEN Ok(fmatch)
    ELSE CheckAgainst(from_forward(fmatch), PrevOf(from_forward(fmatch), cm))

\* A variant of the context checks as a chain of four exclusive branches:
\* with upon set the left-brother of fm is not looked at.
FeedContextChain(fm, cm) ==
    IF Len(fm.children) > 0 THEN can_concat(last(fm), cm)
    ELSE IF ~IsNone(fm.upon) THEN InSeq(fm.upon[1], history_at_start(cm))
    ELSE IF ~IsNone(fm.lbro) THEN can_concat(fm.lbro[1], cm)
    ELSE TRUE

\* feed, lines 37-56: the context checks that are asserted.
FeedContextOk(fm, cm) ==
    IF Len(fm.children) > 0 THEN can_concat(last(fm), cm)
    ELSE /\ (~IsNone(fm.upon) => InSeq(fm.upon[1], history_at_start(cm)))
         /\ (~IsNone(fm.lbro) => can_concat(fm.lbro[1], cm))

\* feed, lines 37-56: the left-brother of the advanced match.
FeedLeftBrother(fm, cm) ==
    IF Len(fm.children) = 0 /\ IsNone(fm.lbro) THEN cm.lbro ELSE fm.lbro

\* A variant of feed that does not move the close of the advanced match.
feedKeepClose(fm, cm) ==
    IF \/ Len(awaited(fm)) = 0
       \/ awaited(fm)[1] # external(cm)
       \/ fm.close # cm.start
    THEN Raise("AssertionError")
    ELSE IF ~FeedContextOk(fm, cm) THEN Raise("AssertionError")
    ELSE Promote(Match("F", fm.rule, fm.start, fm.close, fm.name,
                       Append(fm.children, cm), FeedLeftBrother(fm, cm),
                       None, fm.upon),
                 cm)

\* feed(fm, cm): advance, and eventually complete, a forward match.
feed(fm, cm) ==
    IF \/ Len(awaited(fm)) = 0
       \/ awaited(fm)[1] # external(cm)
       \/ fm.close # cm.start
    THEN Raise("AssertionError")
    ELSE IF ~FeedContextOk(fm, cm) THEN Raise("AssertionError")
    ELSE Promote(Match("F", fm.rule, fm.start, cm.close, fm.name,
                       Append(fm.children, cm), FeedLeftBrother(fm, cm),
                       None, fm.upon),
                 cm)


(***************************************************************************)
(* parser.py: the two match structures.  Every bucket is appended to       *)
(* together with all_matches, so a bucket holds the matches of all_matches *)
(* that were filed under its key.                                          *)
(***************************************************************************)
\* A variant of CmsAdd without the membership test.
CmsAddAlways(all, m) == [added |-> TRUE, all |-> BagAppend(all, m)]

\* CompleteMatchStructure.add: the value that is returned and all_matches
\* afterwards.
CmsAdd(all, m) ==
    IF InBag(m, all) THEN [added |-> FALSE, all |-> all]
    ELSE [added |-> TRUE, all |-> BagAppend(all, m)]

\* CompleteMatchStructure.select(start, external); external may be None.
CmsSelect(all, start, ext) ==
    {m \in BagToSet(all) :
        /\ m.start = start
        /\ (IsNone(ext) \/ external(m) = ext[1])}

\* ForwardMatchStructure.add, lines 99-109: is the match filed under ext?
FiledUnder(m, ext) ==
    IF Len(awaited(m)) = 0
    THEN IF expectation(m)[1].type = "&"
         THEN expectation(m)[1].ext = ext
         ELSE ext \in Externals /\ EXCall(expectation(m)[1], ext)
    ELSE awaited(m)[1] = ext

\* ForwardMatchStructure.add, lines 99-109: the exception the filing raises,
\* "" if none.
FilingError(m) ==
    IF Len(awaited(m)) = 0
    THEN IF IsNone(expectation(m)) THEN "TypeError"
         ELSE IF expectation(m)[1].type = "&" /\ expectation(m)[1].ext \notin Externals
         THEN "KeyError"
         ELSE ""
    ELSE IF awaited(m)[1] \notin Externals THEN "KeyError" ELSE ""

\* A variant of ForwardMatchStructure.add that does not look for the match
\* in all_matches.
FmsAddAlways(all, m) ==
    [added |-> TRUE, all |-> BagAppend(all, m), raised |-> FilingError(m)]

\* ForwardMatchStructure.add: the value that is returned, all_matches
\* afterwards and the exception the filing raises, "" if none.
FmsAdd(all, m) ==
    IF InBag(m, all) THEN [added |-> FALSE, all |-> all, raised |-> ""]
    ELSE [added |-> TRUE, all |-> BagAppend(all, m), raised |-> FilingError(m)]

\* ForwardMatchStructure.select(close, external)
FmsSelect(all, close, ext) ==
    {m \in BagToSet(all) :
        /\ m.close = close
        /\ FilingError(m) = ""
        /\ FiledUnder(m, ext)}

\* set.add: a Python set keeps the element it already holds.
SetAdd(set, m) == IF InSet(m, set) THEN set ELSE set \cup {m}

\* set.add of the elements of seq, in order.
RECURSIVE SetAddAll(_, _)
SetAddAll(set, seq) ==
    IF Len(seq) = 0 THEN set
    ELSE SetAddAll(SetAdd(set, Head(seq)), Tail(seq))

\* set.update(other)
RECURSIVE SetUpdate(_, _)
SetUpdate(set, other) ==
    IF other = {} THEN set
    ELSE LET m == CHOOSE x \in other : TRUE
         IN  SetUpdate(SetAdd(set, m), other \ {m})

\* predict lines 258-261 and complete lines 352-355.
Interact(fm, cm) ==
    IF Len(awaited(fm)) = 0 THEN settle(fm, cm) ELSE feed(fm, cm)

\* The try blocks of predict and complete catch these two.
Caught(kind) == kind \in {"AssertionError", "CyclicMatchError"}

\* The exceptions that end the loop over a bucket: those of the outcomes
\* that no try block catches.
LoopRaises(outs) == {o.kind : o \in {x \in outs : x.kind # "ok" /\ ~Caught(x.kind)}}

\* The matches a loop over a bucket adds to new_matches.
LoopMatches(outs) == {o.out[1] : o \in {x \in outs : x.kind = "ok"}}

\* new_matches after the loop: of the matches that are equal the set keeps
\* the one that was added first, which is any of them.
LoopNew(matches) ==
    IF \A a, b \in matches : Eq(a, b) => a = b THEN {matches}
    ELSE {N \in SUBSET matches :
            /\ \A m \in matches : InSet(m, N)
            /\ \A a, b \in N : Eq(a, b) => a = b}

\* predict lines 224-228: the external fm waits for, None for any.
PredictAwaited(fm) ==
    IF Len(awaited(fm)) > 0 THEN Some(awaited(fm)[1])
    ELSE IF expectation(fm)[1].type = "&" THEN Some(expectation(fm)[1].ext)
    ELSE None

\* A variant of predict lines 236-241 that gives the new match the `upon` of
\* fm also when fm has children.
PredictUponKept(fm) ==
    IF ~IsNone(fm.upon) THEN fm.upon
    ELSE IF Len(fm.children) > 0 /\ ~IsNone(last(fm).rbro) THEN last(fm).rbro
    ELSE None

\* predict lines 236-241
PredictUpon(fm) ==
    IF Len(fm.children) = 0 /\ ~IsNone(fm.upon) THEN fm.upon
    ELSE IF Len(fm.children) > 0 /\ ~IsNone(last(fm).rbro) THEN last(fm).rbro
    ELSE None

\* predict lines 247-250
LeftContext(fm) ==
    IF Len(fm.children) = 0 THEN fm.lbro ELSE Some(last(fm))

\* The rules of terminal_rules[ext] or substitution_rules[ext], by position.
RulesFor(kind, ext) ==
    {r \in 1..Len(Rules) :
        /\ Rules[r].kind = kind
        /\ (IsNone(ext) \/ Rules[r].ext = ext[1])}

\* A variant of the choice of the left-brother that tests the left context
\* alone and not the matches of its history at close.
PredictLeftBrotherNoHistory(rule, left_context) ==
    LET left == Rules[rule].left
    IN  IF IsNone(left) THEN [skip |-> FALSE, lb |-> left_context]
        ELSE IF IsNone(left_context) THEN [skip |-> TRUE, lb |-> None]
        ELSE IF EXCall(left[1], external(left_context[1]))
             THEN [skip |-> FALSE, lb |-> left_context]
        ELSE [skip |-> TRUE, lb |-> None]

\* A variant of the choice of the left-brother that takes the oldest match
\* of the history at close that the rule accepts.
PredictLeftBrotherOldest(rule, left_context) ==
    LET left == Rules[rule].left
    IN  IF IsNone(left) THEN [skip |-> FALSE, lb |-> left_context]
        ELSE IF IsNone(left_context) THEN [skip |-> TRUE, lb |-> None]
        ELSE LET h == history_at_close(left_context[1])
                 hits == {i \in 1..Len(h) : EXCall(left[1], external(h[i]))}
             IN  IF hits = {} THEN [skip |-> TRUE, lb |-> None]
                 ELSE [skip |-> FALSE,
                       lb |-> Some(h[CHOOSE i \in hits : \A j \in hits : j <= i])]

\* predict lines 285-316: the left-brother of the forward match predicted
\* for the rule, None if there is none; skip tells that the rule is skipped.
PredictLeftBrother(rule, left_context) ==
    LET left == Rules[rule].left
    IN  IF IsNone(left) THEN [skip |-> FALSE, lb |-> left_context]
        ELSE IF IsNone(left_context) THEN [skip |-> TRUE, lb |-> None]
        ELSE IF EXCall(left[1], external(left_context[1]))
             THEN [skip |-> FALSE, lb |-> left_context]
        ELSE LET h == history_at_close(left_context[1])
                 hits == {i \in 1..Len(h) : EXCall(left[1], external(h[i]))}
             IN  IF hits = {} THEN [skip |-> TRUE, lb |-> None]
                 ELSE [skip |-> FALSE,
                       lb |-> Some(h[CHOOSE i \in hits : \A j \in hits : i <= j])]

\* A set of rule positions as an increasing sequence.
RECURSIVE Ascending(_)
Ascending(S) ==
    IF S = {} THEN <<>>
    ELSE LET r == CHOOSE x \in S : \A y \in S : x <= y
         IN  <<r>> \o Ascending(S \ {r})

\* predict lines 270-279: the terminal matches scanned at fm.close.
Scanned(fm, aw) ==
    LET rs == Ascending({r \in RulesFor("TR", aw) : ScanMatches(r, string, fm.close)})
    IN  [i \in DOMAIN rs |-> from_scan(rs[i], string, fm.close)]

\* predict lines 284-325: the fresh forward matches.
Predicted(fm, aw) ==
    LET rs == Ascending({r \in RulesFor("SR", aw) :
                            ~PredictLeftBrother(r, LeftContext(fm)).skip})
    IN  [i \in DOMAIN rs |->
            from_rule(rs[i], fm.close,
                      PredictLeftBrother(rs[i], LeftContext(fm)).lb,
                      PredictUpon(fm))]

\* The end of a loop over a bucket: raises are the exceptions that can leave
\* it, all is all_matches of the chart that was added to, news the sets
\* new_matches can be after the loop if none is raised, each with the
\* matches of the sequence `more` added.
LoopEnd(outs, all, more) ==
    [raises |-> LoopRaises(outs),
     all    |-> all,
     news   |-> IF LoopRaises(outs) # {} THEN {}
                ELSE {SetAddAll(N, more) : N \in LoopNew(LoopMatches(outs))}]

\* A variant of the loop of predict that does not look in the complete
\* chart.
PredictForNoLookup(fm, aw, fmsAll, cmsAll) ==
    LoopEnd({}, fmsAll, Scanned(fm, aw) \o Predicted(fm, aw))

\* predict lines 223-333, for the forward match fm that waits for aw; fmsAll
\* is the forward chart with fm added, cmsAll the complete chart.
PredictFor(fm, aw, fmsAll, cmsAll) ==
    LoopEnd({Interact(fm, cm) : cm \in CmsSelect(cmsAll, fm.close, aw)},
            fmsAll,
            Scanned(fm, aw) \o Predicted(fm, aw))

\* predict lines 216-219: a duplicate returns the empty set, and an
\* exception of the filing leaves predict.
PredictAdded(fm, add, cmsAll) ==
    IF ~add.added THEN [raises |-> {}, all |-> add.all, news |-> {{}}]
    ELSE IF add.raised # ""
    THEN [raises |-> {add.raised}, all |-> add.all, news |-> {}]
    ELSE PredictFor(fm, PredictAwaited(fm), add.all, cmsAll)

\* predict(fm) with the charts fmsAll and cmsAll.
predict(fm, fmsAll, cmsAll) == PredictAdded(fm, FmsAdd(fmsAll, fm), cmsAll)

\* complete lines 338-368, after cms.add(cm) returned add.
CompleteAdded(cm, add, fmsAll) ==
    IF ~add.added THEN [raises |-> {}, all |-> add.all, news |-> {{}}]
    ELSE LoopEnd({Interact(fm, cm) :
                     fm \in FmsSelect(fmsAll, cm.start, external(cm))},
                 add.all,
                 <<>>)

\* complete(cm) with the charts fmsAll and cmsAll.
complete(cm, fmsAll, cmsAll) == CompleteAdded(cm, CmsAdd(cmsAll, cm), fmsAll)

(***************************************************************************)
(* Parser.parse                                                            *)
(***************************************************************************)
\* The characters the terminal rules of the grammar match.
Chars ==
    UNION {{Rules[r].act[k] : k \in 1..Len(Rules[r].act)} :
              r \in RulesFor("TR", None)}

\* The longest input string for the rule set.
InputBound ==
    IF Rules \in {GrammarPair, GrammarLateForward} THEN MaxLenPair ELSE MaxLen

\* n times the character c.
Repeat(c, n) == [i \in 1..n |-> c]

\* test_parser: the string a^n b^n c^n.
AnBnCn(n) == Repeat("a", n) \o Repeat("b", n) \o Repeat("c", n)

\* The strings the tests parse with the rule set; test_parser parses
\* a^7 b^7 c^7.
TestStrings ==
    CASE Rules = GrammarAnBnCn -> {AnBnCn(7)}
      [] Rules \in {GrammarParallel, GrammarOverCross, GrammarSideCross}
            -> {<<"z", "Z">>}
      [] Rules = GrammarUpcycle -> {<<"a", "b", "c", "d">>}
      [] Rules = GrammarHanging -> {<<"a", "b">>}
      [] OTHER -> {<<"a", "b", "c">>}

\* The expect argument of the tests; test_parser gives none, and the rule
\* set of test_parser is also parsed with expect S.
TestExpects ==
    CASE Rules = GrammarAnBnCn -> {None, Some("S")}
      [] Rules \in {GrammarParallel, GrammarOverCross, GrammarSideCross,
                    GrammarUpcycle} -> {Some("S")}
      [] OTHER -> {None}

\* The input strings: every string of at most InputBound characters; with
\* the Parser of test_parser the strings a^n b^n c^n for n up to MaxN, of
\* which the string of the test is one if MaxN is 7 or more; with the other
\* Parsers of the tests the string of the test.
Strings ==
    IF gram <= Len(Grammars)
    THEN UNION {[1..n -> Chars] : n \in 0..InputBound}
    ELSE IF Rules = GrammarAnBnCn
    THEN {AnBnCn(n) : n \in 1..MaxN}
            \cup {s \in TestStrings : Len(s) <= 3 * MaxN}
    ELSE TestStrings

\* A name that is the external of no rule.
NoExternal == "?"

\* The values of the expect argument: None, the externals of the rules and
\* a name that no rule has, or the values of the tests.
Expects ==
    IF gram <= Len(Grammars)
    THEN {None} \cup {Some(e) : e \in Externals \cup {NoExternal}}
    ELSE TestExpects

\* parse lines 179-188: the forward matches the worklist is seeded with.
Seeds(e) == {from_rule(r, 0, None, None) : r \in RulesFor("SR", e)}

\* A variant of Returned without the test of close.
ReturnedAnyClose ==
    LET sel == CmsSelect(cms, 0, expect)
    IN  [m \in sel |-> cms[m]]

\* parse lines 209-212: the list that is returned.
Returned ==
    LET sel == {m \in CmsSelect(cms, 0, expect) : m.close = Len(string)}
    IN  [m \in sel |-> cms[m]]

Init ==
    /\ gram \in 1..Len(Grammars)
    /\ pc = "idle"
    /\ string = <<>>
    /\ expect = None
    /\ forwards = {}
    /\ completes = {}
    /\ fms = EmptyBag
    /\ cms = EmptyBag
    /\ result = EmptyBag
    /\ err = ""
    /\ calls = 0

\* parse line 186: self.substitution_rules[expect] raises KeyError when
\* expect is not None and not the external of a rule.
SeedsRaise(e) == ~IsNone(e) /\ e[1] \notin Externals

\* A variant of the entry of parse that keeps the match structures of the
\* call before.
ParseKeepingCharts ==
    /\ pc \in {"idle", "done", "raised"}
    /\ calls < MaxCalls
    /\ calls' = calls + 1
    /\ \E s \in Strings, e \in Expects :
          /\ string' = s
          /\ expect' = e
          /\ IF SeedsRaise(e)
             THEN /\ forwards' = {}
                  /\ pc' = "raised"
                  /\ err' = "KeyError"
             ELSE /\ forwards' = Seeds(e)
                  /\ pc' = "running"
                  /\ err' = ""
    /\ completes' = {}
    /\ result' = EmptyBag
    /\ UNCHANGED <<gram, fms, cms>>

\* parse lines 173-189, called on a Parser that was just built or whose
\* last call of parse returned or raised: fresh match structures and the
\* seeded worklist, or the KeyError of the seeding, which leaves parse.
\* Nothing is returned or raised yet by this call.
Parse ==
    /\ pc \in {"idle", "done", "raised"}
    /\ calls < MaxCalls
    /\ calls' = calls + 1
    /\ \E s \in Strings, e \in Expects :
          /\ string' = s
          /\ expect' = e
          /\ IF SeedsRaise(e)
             THEN /\ forwards' = {}
                  /\ pc' = "raised"
                  /\ err' = "KeyError"
             ELSE /\ forwards' = Seeds(e)
                  /\ pc' = "running"
                  /\ err' = ""
    /\ completes' = {}
    /\ fms' = EmptyBag
    /\ cms' = EmptyBag
    /\ result' = EmptyBag
    /\ UNCHANGED gram

\* parse lines 199-205 after predict or complete returned `new`.  fw and cp
\* are the worklists after the pop.
EndIteration(fw, cp, fmsAll, cmsAll, new) ==
    /\ fms' = fmsAll
    /\ cms' = cmsAll
    /\ forwards' = SetUpdate(fw, {m \in new : m.cls = "F"})
    /\ completes' = SetUpdate(cp, {m \in new : m.cls = "C"})
    /\ UNCHANGED <<gram, pc, string, expect, result, err, calls>>

\* An exception leaves parse.
Abort(fw, cp, fmsAll, cmsAll, raised) ==
    /\ fms' = fmsAll
    /\ cms' = cmsAll
    /\ forwards' = fw
    /\ completes' = cp
    /\ pc' = "raised"
    /\ err' = raised
    /\ UNCHANGED <<gram, string, expect, result, calls>>

\* parse line 197 and lines 199-205: complete(completes.pop()), with the
\* forward worklist fw and the forward chart fmsAll; pops is the set of the
\* complete matches that pop may return.
CompleteIterationOf(pops, fw, fmsAll) ==
    \E cm \in pops :
        \E c \in {complete(cm, fmsAll, cms)} :
            \/ \E new \in c.news :
                  EndIteration(fw, completes \ {cm}, fmsAll, c.all, new)
            \/ \E raised \in c.raises :
                  Abort(fw, completes \ {cm}, fmsAll, c.all, raised)

\* pop of a Python set returns any of its elements.
CompleteIteration(fw, fmsAll) == CompleteIterationOf(completes, fw, fmsAll)

\* One iteration of the loop with a forward match to pop; fpops and cpops
\* are the sets of the matches that the pops may return.  A KeyError
\* raised inside predict is caught by the handler meant for the empty
\* worklist, which goes on with a complete match.
PredictStepOf(fpops, cpops) ==
    /\ pc = "running"
    /\ forwards # {}
    /\ \E fm \in fpops :
          \E fw \in {forwards \ {fm}}, p \in {predict(fm, fms, cms)} :
              \/ \E new \in p.news :
                    EndIteration(fw, completes, p.all, cms, new)
              \/ \E raised \in p.raises \ {"KeyError"} :
                    Abort(fw, completes, p.all, cms, raised)
              \/ /\ "KeyError" \in p.raises
                 /\ IF completes = {}
                    THEN Abort(fw, completes, p.all, cms, "KeyError")
                    ELSE CompleteIterationOf(cpops, fw, p.all)

PredictStep == PredictStepOf(forwards, completes)

\* One iteration of the loop with no forward match left.
CompleteStepOf(cpops) ==
    /\ pc = "running"
    /\ forwards = {}
    /\ completes # {}
    /\ CompleteIterationOf(cpops, forwards, fms)

CompleteStep == CompleteStepOf(completes)

\* Both worklists are empty: parse returns.
Return ==
    /\ pc = "running"
    /\ forwards = {}
    /\ completes = {}
    /\ result' = Returned
    /\ pc' = "done"
    /\ UNCHANGED <<gram, string, expect, forwards, completes, fms, cms, err,
                   calls>>

Next == Parse \/ PredictStep \/ CompleteStep \/ Return

Spec == Init /\ [][Next]_vars

\* The parser of the right-recursive rules.  The loop of parse runs on while
\* there is a match to pop, whence the fairness.
InitRightRec == Init /\ Rules = GrammarRightRec

SpecRightRec == InitRightRec /\ [][Next]_vars /\ WF_vars(Next)

\* The parsers the tests build, but for the one of test_wide_upcycle.
InitTests ==
    /\ gram \in Len(Grammars) + 1 .. Len(Grammars) + Len(TestGrammars)
    /\ Rules # GrammarWideUpcycle
    /\ pc = "idle"
    /\ string = <<>>
    /\ expect = None
    /\ forwards = {}
    /\ completes = {}
    /\ fms = EmptyBag
    /\ cms = EmptyBag
    /\ result = EmptyBag
    /\ err = ""
    /\ calls = 0

SpecTests == InitTests /\ [][Next]_vars

\* The parser of test_wide_upcycle.
InitWide ==
    /\ gram \in Len(Grammars) + 1 .. Len(Grammars) + Len(TestGrammars)
    /\ Rules = GrammarWideUpcycle
    /\ pc = "idle"
    /\ string = <<>>
    /\ expect = None
    /\ forwards = {}
    /\ completes = {}
    /\ fms = EmptyBag
    /\ cms = EmptyBag
    /\ result = EmptyBag
    /\ err = ""
    /\ calls = 0

\* The rule sets with the rules of test_sidecross_deadlock: the one of the
\* test and the one with terminal C matching the character Z.
InitSideCross ==
    /\ gram \in 1 .. Len(Grammars) + Len(TestGrammars)
    /\ Rules \in {GrammarSideCross, GrammarSideCrossZ}
    /\ pc = "idle"
    /\ string = <<>>
    /\ expect = None
    /\ forwards = {}
    /\ completes = {}
    /\ fms = EmptyBag
    /\ cms = EmptyBag
    /\ result = EmptyBag
    /\ err = ""
    /\ calls = 0

SpecSideCross == InitSideCross /\ [][Next]_vars

SpecWide == InitWide /\ [][Next]_vars

(***************************************************************************)
(* Properties                                                              *)
(***************************************************************************)
\* Every symbol of a body or of an expectation is the external of a rule.
WellFormed ==
    \A r \in 1..Len(Rules) :
        /\ Rules[r].kind = "SR" =>
              \A k \in 1..Len(Rules[r].act) : Rules[r].act[k] \in Externals
        /\ ~IsNone(Rules[r].left) => Rules[r].left[1].ext \in Externals
        /\ ~IsNone(Rules[r].right) => Rules[r].right[1].ext \in Externals

\* The canonical identity of a match, with its class.
Identity(m) == <<m.cls, m.crepr, m.lrepr, m.rrepr>>

Identities(set) == {Identity(m) : m \in set}

\* The matches of the two charts.
ForwardChart == BagToSet(fms)

CompleteChart == BagToSet(cms)

\* The nodes of the tree of a match.
RECURSIVE Nodes(_)
Nodes(m) == {m} \cup UNION {Nodes(m.children[i]) : i \in 1..Len(m.children)}

\* The leaves of the trees of a sequence of matches, left to right.
RECURSIVE Leaves(_)
Leaves(ms) ==
    IF Len(ms) = 0 THEN <<>>
    ELSE (IF Len(Head(ms).children) = 0 THEN <<Head(ms)>>
          ELSE Leaves(Head(ms).children)) \o Leaves(Tail(ms))

\* C1: every match parse returns is a complete match with start 0 and close
\* len(string), of the expected external when expect is given; with expect
\* None the complete matches of every external that span the string are
\* returned.
C1_ReturnedSpanInput ==
    pc = "done" =>
        /\ \A m \in BagToSet(result) :
              /\ m.cls = "C"
              /\ m.start = 0
              /\ m.close = Len(string)
              /\ ~IsNone(expect) => external(m) = expect[1]
        /\ IsNone(expect) =>
              \A m \in CompleteChart :
                  (m.start = 0 /\ m.close = Len(string)) => m \in BagToSet(result)

\* parse returned a match of the expected external while the chart holds
\* complete matches that stop before the end and that start after 0.
C1_Witness ==
    /\ pc = "done"
    /\ ~IsNone(expect)
    /\ result # EmptyBag
    /\ \E m \in CompleteChart : m.start = 0 /\ m.close < Len(string)
    /\ \E m \in CompleteChart : m.start > 0 /\ m.close = Len(string)

\* C2: with a well-formed rule set and an expect that is None or the
\* external of a rule no exception leaves parse.
C2_NoExceptionEscapes ==
    (WellFormed /\ ~SeedsRaise(expect)) => pc # "raised"

\* C3: parse terminates: under every order of popping, both worklists
\* become empty and parse returns.
C3_Terminates == <>(pc = "done" /\ forwards = {} /\ completes = {})

\* One run of parse from the worklists fw and cp and the charts fmsAll and
\* cmsAll, with one fixed order of popping.
RECURSIVE RunFrom(_, _, _, _)

\* The iteration of that run that pops a complete match.
RunComplete(fw, cp, fmsAll, cmsAll) ==
    LET cm == CHOOSE m \in cp : TRUE
        c == complete(cm, fmsAll, cmsAll)
    IN  IF c.raises # {}
        THEN [pc |-> "raised", fms |-> fmsAll, cms |-> c.all]
        ELSE LET new == CHOOSE n \in c.news : TRUE
             IN  RunFrom(SetUpdate(fw, {m \in new : m.cls = "F"}),
                         SetUpdate(cp \ {cm}, {m \in new : m.cls = "C"}),
                         fmsAll, c.all)

RunFrom(fw, cp, fmsAll, cmsAll) ==
    IF fw = {} /\ cp = {}
    THEN [pc |-> "done", fms |-> fmsAll, cms |-> cmsAll]
    ELSE IF fw = {} THEN RunComplete(fw, cp, fmsAll, cmsAll)
    ELSE LET fm == CHOOSE m \in fw : TRUE
             p == predict(fm, fmsAll, cmsAll)
         IN  IF p.raises = {}
             THEN LET new == CHOOSE n \in p.news : TRUE
                  IN  RunFrom(SetUpdate(fw \ {fm}, {m \in new : m.cls = "F"}),
                              SetUpdate(cp, {m \in new : m.cls = "C"}),
                              p.all, cmsAll)
             ELSE IF "KeyError" \in p.raises /\ cp # {}
             THEN RunComplete(fw \ {fm}, cp, p.all, cmsAll)
             ELSE [pc |-> "raised", fms |-> p.all, cms |-> cmsAll]

\* The run of parse(string, expect) with that order; the KeyError of the
\* seeding leaves parse before the loop, with the new, empty charts.
ReferenceRun ==
    IF SeedsRaise(expect)
    THEN [pc |-> "raised", fms |-> EmptyBag, cms |-> EmptyBag]
    ELSE RunFrom(Seeds(expect), {}, EmptyBag, EmptyBag)

\* What that run returns.
ReferenceResult ==
    {m \in CmsSelect(ReferenceRun.cms, 0, expect) : m.close = Len(string)}

\* C4: the identities parse returns, and the identities in both charts at
\* the end, are the same for every order of popping.
C4_OrderIndependent ==
    (pc = "done" /\ ReferenceRun.pc = "done") =>
        /\ Identities(BagToSet(result)) = Identities(ReferenceResult)
        /\ Identities(CompleteChart) = Identities(BagToSet(ReferenceRun.cms))
        /\ Identities(ForwardChart) = Identities(BagToSet(ReferenceRun.fms))

\* C5: every complete match of the chart whose rule has a left expectation
\* has a left-brother that satisfies it.
C5_LeftExpectationWitnessed ==
    \A m \in CompleteChart :
        ~IsNone(Rules[m.rule].left) =>
            /\ ~IsNone(m.lbro)
            /\ EXCall(Rules[m.rule].left[1], external(m.lbro[1]))

\* C6: every complete match of the chart whose rule has a right expectation
\* has a right-brother that satisfies it.
C6_RightExpectationWitnessed ==
    \A m \in CompleteChart :
        ~IsNone(Rules[m.rule].right) =>
            /\ ~IsNone(m.rbro)
            /\ EXCall(Rules[m.rule].right[1], external(m.rbro[1]))

\* The chart holds a match that settle completed (its last child has no
\* right-brother) and one that feed promoted (it has the right-brother of
\* its last child), both of rules with a right expectation.
C6_Witness ==
    /\ \E m \in CompleteChart :
          /\ ~IsNone(Rules[m.rule].right)
          /\ IsNone(last(m).rbro)
          /\ ~IsNone(m.rbro)
    /\ \E m \in CompleteChart :
          /\ ~IsNone(Rules[m.rule].right)
          /\ ~IsNone(last(m).rbro)
          /\ m.rbro = last(m).rbro

\* The children of m tile [m.start, m.close).
Tiled(m) ==
    /\ first(m).start = m.start
    /\ last(m).close = m.close
    /\ \A i \in 1..(Len(m.children) - 1) :
          m.children[i].close = m.children[i + 1].start

\* The leaves of m are terminal matches that cover the input exactly.
LeavesCover(m) ==
    LET ls == Leaves(<<m>>)
    IN  /\ Len(ls) > 0
        /\ ls[1].start = 0
        /\ ls[Len(ls)].close = Len(string)
        /\ \A i \in 1..(Len(ls) - 1) : ls[i].close = ls[i + 1].start
        /\ \A i \in 1..Len(ls) :
              /\ Rules[ls[i].rule].kind = "TR"
              /\ ScanMatches(ls[i].rule, string, ls[i].start)
              /\ ls[i].close = ls[i].start + Len(Rules[ls[i].rule].act)

\* C7: the children of every match of either chart tile its span, and the
\* leaves of every returned match cover the input with no gap and no
\* overlap.
C7_ChildrenTile ==
    /\ \A m \in ForwardChart \cup CompleteChart :
          Len(m.children) > 0 => Tiled(m)
    /\ pc = "done" => \A m \in BagToSet(result) : LeavesCover(m)

\* parse returned a match with two children and at least three leaves.
C7_Witness ==
    /\ pc = "done"
    /\ \E m \in BagToSet(result) :
          /\ Len(m.children) = 2
          /\ Len(Leaves(<<m>>)) >= 3

\* C8: no two distinct nodes of one wrapping_history chain, in any node of a
\* returned tree, have the same wrapping_span(node, "both").
C8_CycleFree ==
    pc = "done" =>
        \A r \in BagToSet(result) :
            \A n \in Nodes(r) :
                LET wh == wrapping_history(n)
                IN  \A i, j \in 1..Len(wh) :
                        i < j => wrapping_span(wh[i], "both")
                                    # wrapping_span(wh[j], "both")

\* A list that is kept as a bag holds every identity at most once.
NoDuplicates(bag) ==
    \A a \in BagToSet(bag) :
        /\ bag[a] = 1
        /\ \A b \in BagToSet(bag) : Eq(a, b) => a = b

\* C9: neither chart holds two matches of equal identity.  A bucket holds
\* matches of all_matches, each as often as all_matches does.
C9_ChartsHoldNoDuplicates == NoDuplicates(fms) /\ NoDuplicates(cms)

\* Each chart holds several matches, and each worklist a match that its
\* chart already holds: predict and complete will drop them as duplicates.
C9_Witness ==
    /\ \E m \in forwards : InBag(m, fms)
    /\ \E m \in completes : InBag(m, cms)
    /\ BagCardinality(fms) >= 2
    /\ BagCardinality(cms) >= 2

\* The matches that the parse holds.
Generated == forwards \cup completes \cup ForwardChart \cup CompleteChart

\* Two sequences of matches with equal identities, match by match.
SameIdentities(as, bs) ==
    /\ Len(as) = Len(bs)
    /\ \A i \in 1..Len(as) : Eq(as[i], bs[i])

\* C10: identity is a congruence: two matches of equal identity have the
\* same rule, start and close, children of equal identities, and equal
\* left-brother, right-brother and upon.
C10_IdentityIsCongruence ==
    \A a, b \in Generated :
        Eq(a, b) =>
            /\ a.rule = b.rule
            /\ a.start = b.start
            /\ a.close = b.close
            /\ SameIdentities(a.children, b.children)
            /\ OptEq(a.lbro, b.lbro)
            /\ OptEq(a.rbro, b.rbro)
            /\ OptEq(a.upon, b.upon)

(***************************************************************************)
(* The parsers of tests.py                                                 *)
(***************************************************************************)
\* C11: with the rules of test_parser, parse of a^n b^n c^n with expect S,
\* and without expect as in the test, returns, and returns exactly one
\* solution, a complete match whose crepr is not empty, for every n from 1
\* to MaxN.
C11_AnBnCnOneSolution ==
    Rules = GrammarAnBnCn =>
        /\ pc # "raised"
        /\ pc = "done" =>
              /\ BagCardinality(result) = 1
              /\ \A m \in BagToSet(result) : m.cls = "C" /\ m.crepr # <<>>

\* parse returned the solution for a^2 b^2 c^2, in which a B is the
\* renaming of a Z and a C the renaming of a W.
C11_Witness ==
    /\ Rules = GrammarAnBnCn
    /\ pc = "done"
    /\ string = AnBnCn(2)
    /\ expect = Some("S")
    /\ \E m \in BagToSet(result) :
          /\ external(m) = "S"
          /\ \E b, c \in Nodes(m) :
                /\ external(b) = "B" /\ external(first(b)) = "Z"
                /\ external(c) = "C" /\ external(first(c)) = "W"

\* C12: with the rules of test_parallel_deadlock (a needs A on its right,
\* A needs a on its left) parse of "zZ" with expect S returns the empty
\* list.
C12_ParallelDeadlock ==
    Rules = GrammarParallel =>
        /\ pc # "raised"
        /\ pc = "done" => result = EmptyBag

\* parse returned with the forward match of a -> b fed and waiting for its
\* right context, and with no complete match of a or of A.
C12_Witness ==
    /\ Rules = GrammarParallel
    /\ pc = "done"
    /\ \E fm \in ForwardChart : external(fm) = "a" /\ Len(awaited(fm)) = 0
    /\ \E cm \in CompleteChart : external(cm) = "b"
    /\ \A cm \in CompleteChart : external(cm) \notin {"a", "A"}

\* C13: with the rules of test_overcross_deadlock (b, below a, needs A on
\* its right; B, below A, needs a on its left) parse of "zZ" with expect S
\* returns the empty list.
C13_OverCrossDeadlock ==
    Rules = GrammarOverCross =>
        /\ pc # "raised"
        /\ pc = "done" => result = EmptyBag

\* parse returned with the forward match of b -> c fed and waiting for its
\* right context, and with no complete match of b, a or A.
C13_Witness ==
    /\ Rules = GrammarOverCross
    /\ pc = "done"
    /\ \E fm \in ForwardChart : external(fm) = "b" /\ Len(awaited(fm)) = 0
    /\ \E cm \in CompleteChart : external(cm) = "c"
    /\ \A cm \in CompleteChart : external(cm) \notin {"b", "a", "A"}

\* C14: with the rules of test_sidecross_deadlock (a needs B on its right,
\* b, below a, needs A on its right, and A is above B) parse of "zZ" with
\* expect S returns the empty list, with terminal C matching the character
\* Z and with the pattern "rZ" of the test file alike.
C14_SideCrossDeadlock ==
    (/\ Rules \in {GrammarSideCross, GrammarSideCrossZ}
     /\ string = <<"z", "Z">>
     /\ expect = Some("S")) =>
        /\ pc # "raised"
        /\ pc = "done" => result = EmptyBag

\* parse returned with terminal C matched on Z, b promoted before the A
\* above that match, and a not promoted.
C14_Witness ==
    /\ Rules = GrammarSideCrossZ
    /\ string = <<"z", "Z">>
    /\ expect = Some("S")
    /\ pc = "done"
    /\ \E cm \in CompleteChart :
          /\ external(cm) = "b"
          /\ ~IsNone(cm.rbro)
          /\ external(cm.rbro[1]) = "A"
          /\ external(Leaves(<<cm.rbro[1]>>)[1]) = "C"
    /\ \E fm \in ForwardChart : external(fm) = "a" /\ Len(awaited(fm)) = 0
    /\ \A cm \in CompleteChart : external(cm) # "a"

\* C15: with the rules of test_hanging_expectation (A needs B on its right,
\* B needs A on its right) parse of "ab" returns the empty list.
C15_HangingExpectation ==
    Rules = GrammarHanging =>
        /\ pc # "raised"
        /\ pc = "done" => result = EmptyBag

\* parse returned with the forward match of A -> a fed and waiting for a B,
\* with the forward match of B -> b fed at the end of the string, where no A
\* can follow, and with no complete match but those of the terminals.
C15_Witness ==
    /\ Rules = GrammarHanging
    /\ pc = "done"
    /\ \E fm \in ForwardChart : external(fm) = "A" /\ Len(awaited(fm)) = 0
    /\ \E fm \in ForwardChart :
          external(fm) = "B" /\ Len(awaited(fm)) = 0 /\ fm.close = Len(string)
    /\ {external(cm) : cm \in CompleteChart} = {"a", "b"}

\* C16: with the rules of test_upcycle (B needs on its left the renaming
\* AW of A, C the renaming BW of B, D the renaming CW of C) parse of "abcd"
\* with expect S returns exactly one solution.
C16_UpcycleOneSolution ==
    Rules = GrammarUpcycle =>
        /\ pc # "raised"
        /\ pc = "done" =>
              /\ BagCardinality(result) = 1
              /\ \A m \in BagToSet(result) : external(m) = "S"

\* parse returned the solution in which A is the renaming of AW, itself the
\* renaming of A, and D has the CW below C for left-brother.
C16_Witness ==
    /\ Rules = GrammarUpcycle
    /\ pc = "done"
    /\ \E m \in BagToSet(result) :
          /\ \E n \in Nodes(m) :
                /\ external(n) = "A"
                /\ external(first(n)) = "AW"
                /\ external(first(first(n))) = "A"
          /\ \E n \in Nodes(m) :
                /\ external(n) = "D"
                /\ ~IsNone(n.lbro)
                /\ external(n.lbro[1]) = "CW"

\* C17: with the rules of test_wide_upcycle parse of "abc" without expect
\* returns exactly 8 solutions, and in at least one of them the wrapping
\* history of every child has 2 or 4 matches.  The orders of popping of
\* SpecWide are more than a run can follow: the statement is not settled.
C17_WideUpcycleEightSolutions ==
    Rules = GrammarWideUpcycle =>
        /\ pc # "raised"
        /\ pc = "done" =>
              /\ BagCardinality(result) = 8
              /\ \E m \in BagToSet(result) :
                    \A i \in 1..Len(m.children) :
                        Len(wrapping_history(m.children[i])) \in {2, 4}

\* parse returned a solution whose three children are direct, with
\* wrapping histories of 2 matches, and one whose three children are
\* renamed twice, with wrapping histories of 4 matches.
C17_Witness ==
    /\ Rules = GrammarWideUpcycle
    /\ pc = "done"
    /\ string = <<"a", "b", "c">>
    /\ \E m \in BagToSet(result) :
          /\ Len(m.children) = 3
          /\ \A i \in 1..3 : Len(wrapping_history(m.children[i])) = 2
    /\ \E m \in BagToSet(result) :
          /\ Len(m.children) = 3
          /\ \A i \in 1..3 : Len(wrapping_history(m.children[i])) = 4

\* C18: with the first rules of test_parse_without_expect parse of "abc"
\* without expect returns one match, of external S; with the second rules,
\* S1 -> A B C and S2 -> A R in place of S, it returns two matches, one of
\* external S1 and one of external S2.
C18_ParseWithoutExpect ==
    /\ Rules \in {GrammarWithoutExpect, GrammarWithoutExpect2} => pc # "raised"
    /\ (Rules = GrammarWithoutExpect /\ pc = "done") =>
          /\ BagCardinality(result) = 1
          /\ {external(m) : m \in BagToSet(result)} = {"S"}
    /\ (Rules = GrammarWithoutExpect2 /\ pc = "done") =>
          /\ BagCardinality(result) = 2
          /\ {external(m) : m \in BagToSet(result)} = {"S1", "S2"}

\* parse without expect returned S1 and S2 while the chart holds complete
\* matches of other externals, W and R among them, that do not span the
\* string.
C18_Witness ==
    /\ Rules = GrammarWithoutExpect2
    /\ pc = "done"
    /\ IsNone(expect)
    /\ {external(m) : m \in BagToSet(result)} = {"S1", "S2"}
    /\ \E w, r \in CompleteChart :
          /\ external(w) = "W" /\ w.start = 0 /\ w.close = 2
          /\ external(r) = "R" /\ r.start = 1 /\ r.close = 3

(***************************************************************************)
(* Renaming cycles                                                         *)
(***************************************************************************)
\* The pairs of the charts that feed accepts: cm is awaited by fm where fm
\* closes.
FeedPairs ==
    {p \in ForwardChart \X CompleteChart :
        /\ Len(awaited(p[1])) > 0
        /\ awaited(p[1])[1] = external(p[2])
        /\ p[1].close = p[2].start}

\* C19: a renaming chain is interrupted at the first reappearance of the
\* same non-terminal, that is, no complete match of the chart has a wrapping
\* history in which one external occurs at two nodes.
C19_NoExternalTwice ==
    \A m \in CompleteChart :
        LET wh == wrapping_history(m)
        IN  \A i, j \in 1..Len(wh) :
                i < j => external(wh[i]) # external(wh[j])

(***************************************************************************)
(* Rules with an empty body                                                *)
(***************************************************************************)
\* C20: a substitution rule with an empty body is rejected when the rule or
\* the parser is made, so that parse never puts into the forward chart a
\* forward match with nothing awaited and no right expectation.
C20_EmptyBodyNeverFiled ==
    \A fm \in ForwardChart :
        ~(Len(awaited(fm)) = 0 /\ IsNone(expectation(fm)))

(***************************************************************************)
(* No parse                                                                *)
(***************************************************************************)
\* A body of a substitution rule names an external that no rule has.
BodyUndeclared ==
    \E r \in RulesFor("SR", None) :
        \E k \in 1..Len(Rules[r].act) : Rules[r].act[k] \notin Externals

\* C21: no parse is an empty list, never an error: parse with an expect
\* that is the external of no rule, and parse with rules of which a body
\* names an external that no rule has, do not raise.
C21_NoParseIsNotAnError ==
    (SeedsRaise(expect) \/ BodyUndeclared) => pc # "raised"

(***************************************************************************)
(* The concatenation predicate                                             *)
(***************************************************************************)
\* The positions of a history, counted from the newest, 0, at which a match
\* equal to m stands.
PositionsOf(m, history) ==
    {i \in 0..Len(history) - 1 : Eq(history[i + 1], m)}

\* The positions of the left history whose match has req for right-brother.
NeedRight(history, req) ==
    {i \in 0..Len(history) - 1 : OptEq(history[i + 1].rbro, req)}

\* The positions of the right history whose match has req for left-brother.
NeedLeft(history, req) ==
    {i \in 0..Len(history) - 1 : OptEq(history[i + 1].lbro, req)}

Min(S) == CHOOSE x \in S : \A y \in S : x <= y

\* The pairings of the contexts of L and R do not cross; both requests are
\* present and stand in the opposite histories.
NotCrossing(L, R) ==
    LET left_oldest  == Max(NeedRight(history_at_close(L), L.rbro))
        left_needed  == Min(PositionsOf(R.lbro[1], history_at_close(L)))
        right_oldest == Max(NeedLeft(history_at_start(R), R.lbro))
        right_needed == Min(PositionsOf(L.rbro[1], history_at_start(R)))
    IN  IF left_oldest < left_needed
        THEN right_needed <= right_oldest
        ELSE right_oldest < right_needed

\* The reference predicate of concatenation.
ConcatReference(L, R) ==
    IF IsNone(L.rbro) /\ IsNone(R.lbro) THEN TRUE
    ELSE IF IsNone(L.rbro)
    THEN PositionsOf(R.lbro[1], history_at_close(L)) # {}
    ELSE IF IsNone(R.lbro)
    THEN PositionsOf(L.rbro[1], history_at_start(R)) # {}
    ELSE /\ PositionsOf(R.lbro[1], history_at_close(L)) # {}
         /\ PositionsOf(L.rbro[1], history_at_start(R)) # {}
         /\ NotCrossing(L, R)

\* can_concat(L, R) takes max of an empty sequence, and raises ValueError.
ConcatRaises(L, R) ==
    /\ ~IsNone(L.rbro)
    /\ ~IsNone(R.lbro)
    /\ PositionsOf(R.lbro[1], history_at_close(L)) # {}
    /\ PositionsOf(L.rbro[1], history_at_start(R)) # {}
    /\ \/ NeedRight(history_at_close(L), L.rbro) = {}
       \/ NeedLeft(history_at_start(R), R.lbro) = {}

\* C22: for all complete matches L and R of the chart can_concat(L, R) does
\* not raise and equals the reference predicate: true when neither has a
\* request; with one request, true iff it stands in the history of the other
\* side; with two requests, true iff each stands in the opposite history and
\* the pairings do not cross.
C22_CanConcatIsReference ==
    \A L, R \in CompleteChart :
        /\ ~ConcatRaises(L, R)
        /\ can_concat(L, R) = ConcatReference(L, R)

\* Both requests of L and R are present and stand in the opposite histories.
BothStand(L, R) ==
    /\ ~IsNone(L.rbro)
    /\ ~IsNone(R.lbro)
    /\ PositionsOf(R.lbro[1], history_at_close(L)) # {}
    /\ PositionsOf(L.rbro[1], history_at_start(R)) # {}

\* The chart holds a pair whose pairings do not cross and that
\* concatenates, a pair whose pairings cross and that does not, and a pair
\* with one request, which stands in the history of the other side.
C22_Witness ==
    /\ \E L, R \in CompleteChart : BothStand(L, R) /\ can_concat(L, R)
    /\ \E L, R \in CompleteChart : BothStand(L, R) /\ ~can_concat(L, R)
    /\ \E L, R \in CompleteChart :
          /\ IsNone(L.rbro)
          /\ ~IsNone(R.lbro)
          /\ can_concat(L, R)

(***************************************************************************)
(* The context check of feed                                               *)
(***************************************************************************)
\* C23, as stated: in feed(fm, cm) the context check and the left-brother
\* of the result follow exactly one of four branches: fm has children, then
\* can_concat(fm.last, cm); else upon is set, then only upon in
\* history_at_start(cm); else the left-brother is set, then
\* can_concat(fm.lbro, cm); else no check and the left-brother of cm.
C23_FeedFourBranches ==
    \A p \in FeedPairs :
        \A o \in {feed(p[1], p[2])} :
            /\ (o.kind # "AssertionError") = FeedContextChain(p[1], p[2])
            /\ o.kind = "ok" =>
                  o.out[1].lbro =
                      IF /\ Len(p[1].children) = 0
                         /\ IsNone(p[1].upon)
                         /\ IsNone(p[1].lbro)
                      THEN p[2].lbro
                      ELSE p[1].lbro

\* C23, amended: with children feed requires can_concat(fm.last, cm) and
\* keeps fm.lbro.  Without children it requires upon in
\* history_at_start(cm) when upon is set and, whether upon is set or not,
\* can_concat(fm.lbro, cm) when the left-brother is set; the result has
\* fm.lbro for left-brother when that is set and cm.lbro when it is not.
C23_FeedChecksUponAndBrother ==
    \A p \in FeedPairs :
        \A o \in {feed(p[1], p[2])} :
            /\ (o.kind # "AssertionError") =
                  IF Len(p[1].children) > 0 THEN can_concat(last(p[1]), p[2])
                  ELSE /\ \/ IsNone(p[1].upon)
                          \/ InSeq(p[1].upon[1], history_at_start(p[2]))
                       /\ \/ IsNone(p[1].lbro)
                          \/ can_concat(p[1].lbro[1], p[2])
            /\ o.kind = "ok" =>
                  o.out[1].lbro =
                      IF Len(p[1].children) = 0 /\ IsNone(p[1].lbro)
                      THEN p[2].lbro
                      ELSE p[1].lbro

\* feed rejects a pair whose forward match has no children, an upon that
\* stands in the history at start of cm, and a left-brother that does not
\* concatenate with cm; and feed accepts such a pair whose left-brother
\* concatenates with cm, and keeps that left-brother.
C23_Witness ==
    /\ \E p \in FeedPairs :
          /\ Len(p[1].children) = 0
          /\ ~IsNone(p[1].upon)
          /\ InSeq(p[1].upon[1], history_at_start(p[2]))
          /\ ~IsNone(p[1].lbro)
          /\ ~can_concat(p[1].lbro[1], p[2])
          /\ feed(p[1], p[2]).kind = "AssertionError"
    /\ \E p \in FeedPairs :
          \E o \in {feed(p[1], p[2])} :
              /\ Len(p[1].children) = 0
              /\ ~IsNone(p[1].upon)
              /\ ~IsNone(p[1].lbro)
              /\ o.kind = "ok"
              /\ o.out[1].lbro = p[1].lbro

(***************************************************************************)
(* The cycle decision of feed                                              *)
(***************************************************************************)
\* feed, lines 58-66: fm advanced by cm.
FeedAdvanced(fm, cm) ==
    Match("F", fm.rule, fm.start, cm.close, fm.name, Append(fm.children, cm),
          FeedLeftBrother(fm, cm), None, fm.upon)

\* The pairs of the charts of which feed promotes the advanced match.
PromotedPairs ==
    {p \in FeedPairs :
        FeedContextOk(p[1], p[2]) /\ CanPromote(FeedAdvanced(p[1], p[2]))}

\* C24: when feed promotes a forward match to a complete match newcm, the
\* cycle decision is the reference: with prev the first match of the same
\* external in the wrapping history of the fed child, newcm is accepted if
\* there is no prev, rejected if the spans "both" are equal, rejected if the
\* spans "none" are equal and neither side is new, accepted otherwise; and
\* can_concat is called with two matches only.
C24_CycleDecisionIsReference ==
    \A p \in PromotedPairs :
        \A newcm \in {from_forward(FeedAdvanced(p[1], p[2]))} :
            \A prevo \in {PrevOf(newcm, p[2])} :
                feed(p[1], p[2]).kind =
                    IF \/ IsNone(prevo)
                       \/ /\ wrapping_span(newcm, "both")
                                # wrapping_span(prevo[1], "both")
                          /\ \/ wrapping_span(newcm, "none")
                                    # wrapping_span(prevo[1], "none")
                             \/ IsNone(prevo[1].lbro) /\ ~IsNone(newcm.lbro)
                             \/ /\ ~IsNone(prevo[1].lbro)
                                /\ ~IsNone(newcm.lbro)
                                /\ wrapping_span(prevo[1], "left")
                                      # wrapping_span(newcm, "left")
                                /\ ~can_concat(newcm.lbro[1], prevo[1])
                             \/ IsNone(prevo[1].rbro) /\ ~IsNone(newcm.rbro)
                             \/ /\ ~IsNone(prevo[1].rbro)
                                /\ ~IsNone(newcm.rbro)
                                /\ wrapping_span(prevo[1], "right")
                                      # wrapping_span(newcm, "right")
                                /\ ~can_concat(prevo[1], newcm.rbro[1])
                    THEN "ok"
                    ELSE "CyclicMatchError"

(***************************************************************************)
(* Cyclic rejections in predict and complete                               *)
(***************************************************************************)
\* feed(fm, cm) comes to the cycle check, and the check rejects the
\* promoted match as cyclic.
RejectedAsCyclic(fm, cm) ==
    /\ Len(awaited(fm)) > 0
    /\ awaited(fm)[1] = external(cm)
    /\ fm.close = cm.start
    /\ FeedContextOk(fm, cm)
    /\ CanPromote(FeedAdvanced(fm, cm))
    /\ \E newcm \in {from_forward(FeedAdvanced(fm, cm))} :
          CheckAgainst(newcm, PrevOf(newcm, cm)).kind = "CyclicMatchError"

\* The two matches of a rejected pair: the candidate and the advanced
\* forward match.
Discarded(fm, cm) ==
    {from_forward(FeedAdvanced(fm, cm)), FeedAdvanced(fm, cm)}

\* The matches returned by the pairs of a step that are not rejected as
\* cyclic.
Returned_by(pairs) ==
    {Interact(p[1], p[2]).out[1] :
        p \in {q \in pairs : /\ ~RejectedAsCyclic(q[1], q[2])
                              /\ Interact(q[1], q[2]).kind = "ok"}}

\* The outcome out of a step over the pairs, of which the pair p is rejected
\* as cyclic: the rejection does not leave the step, the matches of p are in
\* new_matches only if another pair or the sequence `more` gives them, and
\* what the other pairs return is in new_matches.
StepSkips(out, pairs, p, more) ==
    /\ "CyclicMatchError" \notin out.raises
    /\ out.raises = {} => out.news # {}
    /\ \A new \in out.news :
          /\ \A m \in Discarded(p[1], p[2]) :
                InSet(m, new) =>
                    \/ InSet(m, Returned_by(pairs))
                    \/ InSeq(m, more)
          /\ \A m \in Returned_by(pairs) : InSet(m, new)

\* The pairs of complete(cm).
CompletePairs(cm) ==
    {<<fm, cm>> : fm \in FmsSelect(fms, cm.start, external(cm))}

\* The pairs of predict(fm).
PredictPairs(fm) ==
    {<<fm, cm>> : cm \in CmsSelect(cms, fm.close, PredictAwaited(fm))}

\* C25: when the promotion inside feed(fm, cm) is rejected as cyclic the
\* pair yields nothing: complete and predict, with any match of the
\* worklists that is new to its chart, neither raise the rejection nor
\* return the candidate or the advanced forward match of the pair, add
\* nothing but the processed match to the chart, and go on with the other
\* pairs of the step.
C25_CyclicPairYieldsNothing ==
    /\ \A cm \in {m \in completes : ~InBag(m, cms)} :
          \A p \in {q \in CompletePairs(cm) : RejectedAsCyclic(q[1], q[2])} :
              /\ StepSkips(complete(cm, fms, cms), CompletePairs(cm), p, <<>>)
              /\ complete(cm, fms, cms).all = BagAppend(cms, cm)
    /\ \A fm \in {m \in forwards : ~InBag(m, fms) /\ FilingError(m) = ""} :
          \A p \in {q \in PredictPairs(fm) : RejectedAsCyclic(q[1], q[2])} :
              /\ StepSkips(predict(fm, fms, cms), PredictPairs(fm), p,
                           Scanned(fm, PredictAwaited(fm))
                               \o Predicted(fm, PredictAwaited(fm)))
              /\ predict(fm, fms, cms).all = BagAppend(fms, fm)

\* A forward match is about to be processed by predict, one of its pairs is
\* rejected as cyclic and another pair of the same step returns a match;
\* and the charts hold a pair that a step before rejected as cyclic, of
\* which neither the candidate nor the advanced forward match is in a chart
\* or on a worklist.
C25_Witness ==
    /\ pc = "running"
    /\ \E fm \in {m \in forwards : ~InBag(m, fms) /\ FilingError(m) = ""} :
          /\ \E p \in PredictPairs(fm) : RejectedAsCyclic(p[1], p[2])
          /\ Returned_by(PredictPairs(fm)) # {}
          /\ predict(fm, fms, cms).raises = {}
    /\ \E p \in FeedPairs :
          /\ RejectedAsCyclic(p[1], p[2])
          /\ \A m \in Discarded(p[1], p[2]) :
                /\ ~InBag(m, fms)
                /\ ~InBag(m, cms)
                /\ ~InSet(m, forwards \cup completes)

(***************************************************************************)
(* Negative right expectations                                             *)
(***************************************************************************)
\* The rule of m has a negative right expectation.
ForbidsRight(m) ==
    /\ Rules[m.rule].kind = "SR"
    /\ ~IsNone(Rules[m.rule].right)
    /\ Rules[m.rule].right[1].type = "!"

\* The external the rule of m forbids on the right.
Forbidden(m) == Rules[m.rule].right[1].ext

\* The forward matches with all children present that forbid an external on
\* the right.
OpenForbidding(set) ==
    {fm \in set : fm.cls = "F" /\ Len(awaited(fm)) = 0 /\ ForbidsRight(fm)}

\* The complete matches known to the parser.
KnownComplete == CompleteChart \cup completes

\* A forward match with all children present and a negative right
\* expectation forbid(t) is filed for settlement under every declared
\* external but t, and no complete match of external t settles it.
FiledButForbidden ==
    \A fm \in OpenForbidding(ForwardChart) :
        /\ FilingError(fm) = ""
        /\ \A ext \in Externals :
              (fm \in FmsSelect(fms, fm.close, ext)) <=> ext # Forbidden(fm)
        /\ \A cm \in KnownComplete :
              external(cm) = Forbidden(fm) => Interact(fm, cm).kind # "ok"

\* C26, as stated: a forward match with all children present and a negative
\* right expectation forbid(t) is filed for settlement under every declared
\* external but t, no complete match of external t settles it, and every
\* complete match of a rule with a right expectation forbid(t) has a
\* right-brother whose external is not t, so none is completed at the end
\* of the input.
C26_NegativeRightExpectation ==
    /\ \A fm \in OpenForbidding(ForwardChart) :
          /\ FilingError(fm) = ""
          /\ \A ext \in Externals :
                (fm \in FmsSelect(fms, fm.close, ext)) <=> ext # Forbidden(fm)
          /\ \A cm \in KnownComplete :
                external(cm) = Forbidden(fm) => Interact(fm, cm).kind # "ok"
    /\ \A cm \in KnownComplete \cup BagToSet(result) :
          ForbidsRight(cm) =>
              /\ ~IsNone(cm.rbro)
              /\ external(cm.rbro[1]) # Forbidden(cm)
              /\ cm.close < Len(string)

\* C26, amended: the same, but that a complete match of a rule with a right
\* expectation forbid(t) is completed at the end of the input only with a
\* right-brother that matches the empty string there.
C26_NegativeRightBrother ==
    /\ FiledButForbidden
    /\ \A cm \in KnownComplete \cup BagToSet(result) :
          ForbidsRight(cm) =>
              /\ ~IsNone(cm.rbro)
              /\ external(cm.rbro[1]) # Forbidden(cm)
              /\ \/ cm.close < Len(string)
                 \/ /\ cm.rbro[1].start = Len(string)
                    /\ cm.rbro[1].close = Len(string)

\* The parse is over; a forward match that forbids B on the right was
\* settled by a complete match of another external that is not empty, one was
\* settled at the end of the input by a match of the empty string, and the
\* forward match that closes at the end of the input is in the chart, with
\* a complete match of the forbidden external that starts where it starts.
C26_Witness ==
    /\ pc = "done"
    /\ \E cm \in CompleteChart :
          /\ ForbidsRight(cm)
          /\ ~IsNone(cm.rbro)
          /\ cm.rbro[1].start < cm.rbro[1].close
    /\ \E cm \in CompleteChart :
          /\ ForbidsRight(cm)
          /\ cm.close = Len(string)
          /\ ~IsNone(cm.rbro)
          /\ cm.rbro[1].start = cm.rbro[1].close
    /\ \E fm \in OpenForbidding(ForwardChart) :
          /\ fm.close = Len(string)
          /\ \E cm \in CompleteChart :
                external(cm) = Forbidden(fm) /\ cm.start = fm.start

(***************************************************************************)
(* Closure of the charts                                                   *)
(***************************************************************************)
\* cm is a complete match that predict(fm) and complete(cm) pair with fm:
\* it starts where fm closes and fm is filed under its external.
Pairs(fm, cm) ==
    /\ cm.start = fm.close
    /\ FilingError(fm) = ""
    /\ FiledUnder(fm, external(cm))

\* m is in the chart of its class.
InCharts(m) == IF m.cls = "F" THEN InBag(m, fms) ELSE InBag(m, cms)

\* C27: when parse is over the charts are closed under feed and settle,
\* whatever the order of the work: for every forward match and complete
\* match of the charts that pair, what feed or settle returns for them is
\* in the charts.
C27_ChartsClosed ==
    pc = "done" =>
        \A fm \in ForwardChart : \A cm \in CompleteChart :
            (Pairs(fm, cm) /\ Interact(fm, cm).kind = "ok")
                => InCharts(Interact(fm, cm).out[1])

\* The parse is over, a pair of the charts was fed and a pair was settled,
\* and a forward match was paired by predict with a complete match that was
\* in the chart before it.
C27_Witness ==
    /\ pc = "done"
    /\ \E fm \in ForwardChart : \E cm \in CompleteChart :
          /\ Pairs(fm, cm)
          /\ Len(awaited(fm)) > 0
          /\ Interact(fm, cm).kind = "ok"
    /\ \E fm \in ForwardChart : \E cm \in CompleteChart :
          /\ Pairs(fm, cm)
          /\ Len(awaited(fm)) = 0
          /\ Interact(fm, cm).kind = "ok"

(***************************************************************************)
(* Duplicates on the worklists                                             *)
(***************************************************************************)
\* What predict and complete return for a match that the chart holds: no
\* exception, the chart as it was, an empty set of new matches.
Duplicate(all) == [raises |-> {}, all |-> all, news |-> {{}}]

\* How often the list kept as a bag holds m.
Count(bag, m) == IF m \in BagToSet(bag) THEN bag[m] ELSE 0

\* A step appends to the list only a match that was not in it, and once.
AppendsNew(old, new) ==
    \A m \in BagToSet(new) :
        Count(new, m) > Count(old, m) => ~InBag(m, old) /\ Count(new, m) = 1

\* C28: predict of a forward match that equals one of the forward chart and
\* complete of a complete match that equals one of the complete chart
\* return no new match and leave the charts as they are; a step of the
\* parser enters a match in a chart only if no equal match is there, so that
\* every identity is expanded at most once.
C28_DuplicatesNotExpanded ==
    [][/\ \A fm \in forwards :
             InBag(fm, fms) => predict(fm, fms, cms) = Duplicate(fms)
       /\ \A cm \in completes :
             InBag(cm, cms) => complete(cm, fms, cms) = Duplicate(cms)
       /\ AppendsNew(fms, fms')
       /\ AppendsNew(cms, cms')]_vars

\* A forward match of the worklist is in the forward chart, and a complete
\* match of the worklist is in the complete chart.
C28_Witness ==
    /\ pc = "running"
    /\ \E fm \in forwards : InBag(fm, fms)
    /\ \E cm \in completes : InBag(cm, cms)

(***************************************************************************)
(* The loop of parse                                                       *)
(***************************************************************************)
\* The work items that a step takes from the worklists and does not put
\* back.
Removed == (forwards \ forwards') \cup (completes \ completes')

\* C29: an iteration of the loop of parse processes a complete match, that
\* is, enters it in the complete chart, only if it finds the forward
\* worklist empty, and it takes one work item from the worklists, not a
\* forward match and a complete match.
C29_OneItemPerIteration ==
    [][pc = "running" =>
          /\ cms' # cms => forwards = {}
          /\ Cardinality(Removed) <= 1]_vars

(***************************************************************************)
(* The forward matches that predict creates                                *)
(***************************************************************************)
\* The first match of the sequence h whose external the expectation ex
\* accepts, None if there is none.
RECURSIVE FirstAccepted(_, _)
FirstAccepted(h, ex) ==
    IF Len(h) = 0 THEN None
    ELSE IF EXCall(ex, external(Head(h))) THEN Some(Head(h))
    ELSE FirstAccepted(Tail(h), ex)

\* The forward matches that predict(fm) creates for the rule.
FreshFor(fm, rule) ==
    {m \in {Predicted(fm, PredictAwaited(fm))[i] :
                i \in DOMAIN Predicted(fm, PredictAwaited(fm))} :
        m.rule = rule}

\* The forward matches of the set are one match, of class forward, with no
\* children, that starts and closes at fm.close and has the left-brother lb.
OneFresh(set, fm, lb) ==
    /\ Cardinality(set) = 1
    /\ \A m \in set :
          /\ m.cls = "F"
          /\ m.children = <<>>
          /\ m.start = fm.close
          /\ m.close = fm.close
          /\ m.lbro = lb

\* The forward matches that predict is called with or was called with and
\* that it files without an exception.
KnownForward == {fm \in ForwardChart \cup forwards : FilingError(fm) = ""}

\* C30: predict(fm), with left_context the last child of fm or, if fm has no
\* child, its left-brother, creates for a rule without left expectation a
\* forward match with the left-brother left_context; for a rule with a left
\* expectation it creates none if left_context is null or if neither
\* left_context nor a match of history_at_close(left_context) is accepted,
\* else one whose left-brother is left_context if that is accepted and
\* otherwise the first accepted match of the history.  Every such match
\* starts and closes where fm closes.
C30_PredictLeftBrother ==
    \A fm \in KnownForward :
        \A rule \in RulesFor("SR", PredictAwaited(fm)) :
            LET left == Rules[rule].left
                left_context == IF Len(fm.children) > 0 THEN Some(last(fm))
                                ELSE fm.lbro
                fresh == FreshFor(fm, rule)
            IN  IF IsNone(left) THEN OneFresh(fresh, fm, left_context)
                ELSE IF IsNone(left_context) THEN fresh = {}
                ELSE IF EXCall(left[1], external(left_context[1]))
                     THEN OneFresh(fresh, fm, left_context)
                ELSE IF IsNone(FirstAccepted(
                                   history_at_close(left_context[1]), left[1]))
                     THEN fresh = {}
                ELSE OneFresh(fresh, fm,
                         FirstAccepted(history_at_close(left_context[1]),
                                       left[1]))

\* predict was called with forward matches for which a rule with a left
\* expectation gets the left context, gets an older match of its history,
\* and is skipped.
C30_Witness ==
    /\ \E fm \in KnownForward :
          \E rule \in RulesFor("SR", PredictAwaited(fm)) :
              /\ ~IsNone(Rules[rule].left)
              /\ ~IsNone(LeftContext(fm))
              /\ EXCall(Rules[rule].left[1], external(LeftContext(fm)[1]))
              /\ FreshFor(fm, rule) # {}
    /\ \E fm \in KnownForward :
          \E rule \in RulesFor("SR", PredictAwaited(fm)) :
              /\ ~IsNone(Rules[rule].left)
              /\ ~IsNone(LeftContext(fm))
              /\ ~EXCall(Rules[rule].left[1], external(LeftContext(fm)[1]))
              /\ FreshFor(fm, rule) # {}
    /\ \E fm \in KnownForward :
          \E rule \in RulesFor("SR", PredictAwaited(fm)) :
              /\ ~IsNone(Rules[rule].left)
              /\ FreshFor(fm, rule) = {}

(***************************************************************************)
(* Calls of parse one after the other                                      *)
(***************************************************************************)
\* The state parse starts the loop from, or raises the KeyError of the
\* seeding from, on a Parser that was just built.
Entered ==
    /\ fms = EmptyBag
    /\ cms = EmptyBag
    /\ completes = {}
    /\ result = EmptyBag
    /\ IF SeedsRaise(expect)
       THEN forwards = {} /\ pc = "raised" /\ err = "KeyError"
       ELSE forwards = Seeds(expect) /\ pc = "running" /\ err = ""

\* C31: the state of parsing is reset at the entry of parse: a call of
\* parse after another call on the same Parser starts from empty charts,
\* an empty worklist of complete matches and the seeded worklist of forward
\* matches, as on a Parser just built, so that no match of the call before
\* is in a chart or a worklist; and when it returns, it returns the
\* identities that the run on a Parser just built with the same rules
\* returns.
C31_StateResetAtEntry ==
    /\ [][calls' > calls => Entered']_vars
    /\ []((calls > 1 /\ pc = "done" /\ ReferenceRun.pc = "done") =>
             Identities(BagToSet(result)) = Identities(ReferenceResult))

\* The second call of parse on a Parser has returned matches, for a string
\* shorter than the longest, as the run on a Parser just built does.
C31_Witness ==
    /\ calls = 2
    /\ pc = "done"
    /\ result # EmptyBag
    /\ ReferenceRun.pc = "done"
    /\ Len(string) < MaxLen

(***************************************************************************)
(* Children and rule bodies                                                *)
(***************************************************************************)
\* The matches of the charts, of the worklists and of the returned list, and
\* the matches of their trees.
KnownNodes ==
    UNION {Nodes(m) : m \in ForwardChart \cup CompleteChart \cup forwards
                              \cup completes \cup BagToSet(result)}

\* The children of m are matches of the first symbols of the body of its
\* rule, in order.
ChildrenFollowBody(m) ==
    /\ Len(m.children) <= Len(Rules[m.rule].act)
    /\ \A i \in 1..Len(m.children) :
          /\ m.children[i].cls = "C"
          /\ external(m.children[i]) = Rules[m.rule].act[i]

\* C32: a forward match has at most as many children as the body of its
\* rule has symbols, a complete match of a substitution rule has as many, a
\* match of a terminal rule has none, and the external of the i-th child is
\* the i-th symbol of the body.
C32_ChildrenMatchBody ==
    \A m \in KnownNodes :
        IF Rules[m.rule].kind = "TR"
        THEN m.cls = "C" /\ m.children = <<>>
        ELSE /\ ChildrenFollowBody(m)
             /\ m.cls = "C" => Len(m.children) = Len(Rules[m.rule].act)

\* The charts hold a forward match with some and not all of its children,
\* and a complete match of a rule with a body of two symbols.
C32_Witness ==
    /\ \E m \in ForwardChart :
          /\ Len(m.children) > 0
          /\ Len(m.children) < Len(Rules[m.rule].act)
    /\ \E m \in CompleteChart :
          /\ Rules[m.rule].kind = "SR"
          /\ Len(m.children) = 2
    /\ \E m \in CompleteChart : Rules[m.rule].kind = "TR"

(***************************************************************************)
(* Positions of the recorded context                                       *)
(***************************************************************************)
\* The context m records is next to m: the left-brother closes where m
\* starts, the right-brother of a complete match starts where it closes,
\* the `upon` of a forward match starts where it starts.
ContextAdjacent(m) ==
    /\ ~IsNone(m.lbro) => m.lbro[1].close = m.start
    /\ (m.cls = "C" /\ ~IsNone(m.rbro)) => m.rbro[1].start = m.close
    /\ (m.cls = "F" /\ ~IsNone(m.upon)) => m.upon[1].start = m.start

\* C33: for every match of either chart a left-brother closes at the start
\* of the match, a right-brother of a complete match starts at its close
\* and the `upon` of a forward match starts at its start.
C33_ContextIsAdjacent ==
    \A m \in ForwardChart \cup CompleteChart : ContextAdjacent(m)

\* The charts hold a match with a left-brother, a complete match with a
\* right-brother and a forward match built upon a match.
C33_Witness ==
    /\ \E m \in ForwardChart \cup CompleteChart : ~IsNone(m.lbro)
    /\ \E m \in CompleteChart : ~IsNone(m.rbro)
    /\ \E m \in ForwardChart : ~IsNone(m.upon)

(***************************************************************************)
(* Context across the boundary of two siblings                             *)
(***************************************************************************)
\* What the child a recorded on its right is in the child b that follows
\* it, and what b recorded on its left is in a.
BoundaryKept(a, b) ==
    /\ ~IsNone(a.rbro) => InSeq(a.rbro[1], history_at_start(b))
    /\ ~IsNone(b.lbro) => InSeq(b.lbro[1], history_at_close(a))

\* C34: for every match of either chart and every two adjacent children, a
\* right-brother of the first is a match of history_at_start of the second
\* and a left-brother of the second is a match of history_at_close of the
\* first.
C34_SiblingContextPresent ==
    \A m \in ForwardChart \cup CompleteChart :
        \A i \in 1..(Len(m.children) - 1) :
            BoundaryKept(m.children[i], m.children[i + 1])

\* The charts hold a match with two adjacent children of which the first
\* recorded a right-brother, and one of which the second recorded a
\* left-brother that is not the first child itself.
C34_Witness ==
    /\ \E m \in ForwardChart \cup CompleteChart :
          \E i \in 1..(Len(m.children) - 1) : ~IsNone(m.children[i].rbro)
    /\ \E m \in ForwardChart \cup CompleteChart :
          \E i \in 1..(Len(m.children) - 1) :
              /\ ~IsNone(m.children[i + 1].lbro)
              /\ ~Eq(m.children[i + 1].lbro[1], m.children[i])

====
